---- MODULE Spec2Model ----
(***************************************************************************)
(* mcp-glucose: three MCP servers over one remote health-data API.         *)
(*   "oauth" : the OAuth multi-tenant SSE server (src/unnamed/part_002)     *)
(*   "http"  : the single-tenant SSE server      (src/src/http-server.ts)   *)
(*   "stdio" : the stdio server                  (src/src/index.ts)         *)
(* A behaviour runs one of the three; `variant` says which.                *)
(*                                                                         *)
(* JavaScript values: a string is a sequence of string parts, so that a    *)
(* template literal is a concatenation and split(':') is computed; the     *)
(* empty sequence stands for both undefined and '' (the code only tests    *)
(* these values for truthiness).                                           *)
(***************************************************************************)
EXTENDS Integers, Sequences, FiniteSets, TLC

\* ------------------------------------------------------------------ bounds
\* GET /sse requests of one run.
MaxConn == 2
\* POST /message requests (stdio: requests read from stdin) of one run.
MaxMsg == 2
\* Successful GET /oauth/callback requests of one run.
MaxCallback == 1
\* GET /sse and POST /message requests of one run, taken together.
MaxReq == 4

Conns == 1..MaxConn
Msgs == 1..MaxMsg

\* ------------------------------------------------------------------ values
Absent == <<>>
Some(x) == <<x>>
Truthy(s) == s /= <<>>

Variants == {"oauth", "http", "stdio"}

\* The bearer token connection c presents: each client has its own.
BearerOf(c) == <<"token", c>>
\* An identifier source that hands out the same identifier every time.
Uuid_Constant(n) == <<"uuid", 1>>

\* randomUUID(): the n-th identifier handed out; all are distinct.
Uuid(n) == <<"uuid", n>>
\* A session id no transport was ever given.
StrangerId == <<"uuid", 0>>

\* Timestamps as the remote API writes them in start_date.
TsFull == <<"2024-01-15T10", ":", "30", ":", "00Z">>
TsDay == <<"2024-01-15">>
TsNear == <<"2024-01-15T00", ":", "30", ":", "00Z">>
ReadingDates == {TsFull, TsDay, TsNear}

\* ------------------------------------------------------------------ tools
\* TOOLS of the two SSE servers and `tools` of the stdio server (names only:
\* descriptions and schemas are never read by the handlers).
HttpToolNames ==
  <<"search", "fetch", "get_glucose_readings", "get_latest_glucose", "get_glucose_stats">>
StdioToolNames == <<"get_glucose_readings", "get_latest_glucose", "get_glucose_stats">>

TOOLS(v) == IF v = "stdio" THEN StdioToolNames ELSE HttpToolNames

Range(s) == {s[i] : i \in 1..Len(s)}

\* ------------------------------------------------------------------ strings
\* String.prototype.split(':') : the segments between the ':' parts.
RECURSIVE SplitColon(_)
SplitColon(s) ==
  IF \A i \in 1..Len(s) : s[i] /= ":"
  THEN <<s>>
  ELSE LET k == CHOOSE i \in 1..Len(s) : s[i] = ":" /\ \A j \in 1..(i - 1) : s[j] /= ":"
       IN <<SubSeq(s, 1, k - 1)>> \o SplitColon(SubSeq(s, k + 1, Len(s)))

\* const [type, timestamp] = id.split(':') : a missing element is undefined.
Destructure(parts, i) == IF i <= Len(parts) THEN parts[i] ELSE Absent

\* new Date(s).getTime() in minutes after 2024-01-15T00:00Z; <<>> is NaN.
\* A date-time cut after the hour is not an ISO-8601 date-time: the engine
\* falls back to implementation heuristics (V8 answers Invalid Date).
DateParse(s) ==
  IF s = TsFull THEN {Some(630)}
  ELSE IF s = TsDay THEN {Some(0)}
  ELSE IF s = TsNear THEN {Some(30)}
  ELSE IF s = <<"2024-01-15T10">> THEN {Absent, Some(600)}
  ELSE {Absent}

\* ------------------------------------------------------------------ results
\* A text block's text is kept as its parts; the value JSON.stringify was given
\* is kept beside it as `payload` (kind, the readings' dates, the ids emitted).
NoPayload == [kind |-> "none", dates |-> {}, ids |-> {}]
JsonText == <<"JSON">>
TextBlock(text, payload) == [type |-> "text", text |-> text, payload |-> payload]

\* return { content: [...], isError: true }
ErrorResult(text) ==
  [content |-> <<TextBlock(text, NoPayload)>>, isError |-> Some(TRUE), tools |-> <<>>]
\* A success that returns its payload and a second, empty text block.
PlainResult_TwoBlocks(text, payload) ==
  [content |-> <<TextBlock(text, payload), TextBlock(<<>>, NoPayload)>>,
   isError |-> Absent, tools |-> <<>>]

\* return { content: [...] } : the handlers set no isError on success.
PlainResult(text, payload) ==
  [content |-> <<TextBlock(text, payload)>>, isError |-> Absent, tools |-> <<>>]
\* A listing cut to the three reading tools.
ListResult_ReadingToolsOnly(v) ==
  [content |-> <<>>, isError |-> Absent, tools |-> StdioToolNames]

\* return { tools }
ListResult(v) == [content |-> <<>>, isError |-> Absent, tools |-> TOOLS(v)]

NoResult == [content |-> <<>>, isError |-> Absent, tools |-> <<>>]

ReauthText == <<"\\u274c Error: No access token available. Please re-authenticate.">>
UserIdText ==
  <<"Error: userId is required. Either provide it in the tool call or set USER_ID environment variable.">>

\* A catch that returns the bare message.
Caught_BareMessage(v, message, remoteText) == ErrorResult(message)

\* catch (error): the text block built from the caught error's message.
\* oauth prefers the remote API's own error text (error.response.data.error).
CatchPrefixOAuth == "\\u274c Error: "
CatchPrefixHttp == "Error: "
Caught(v, message, remoteText) ==
  IF v = "oauth"
  THEN ErrorResult(<<CatchPrefixOAuth>> \o
         (IF Truthy(remoteText) THEN remoteText
          ELSE IF Truthy(message) THEN message ELSE <<"Unknown error">>))
  ELSE ErrorResult(<<CatchPrefixHttp>> \o message)

\* ------------------------------------------------------------------ requests
NoArgs == [userId |-> Absent, query |-> Absent, id |-> Absent]
ListRequest == [method |-> "tools/list", name |-> "", args |-> NoArgs]
CallRequest(name, args) == [method |-> "tools/call", name |-> name, args |-> args]

\* ------------------------------------------------------------------ api-client.ts
\* new HealthDataAPI(baseURL, authToken, isBearer): the header every request of
\* this client carries.
HealthDataAPI(authToken, isBearer) ==
  IF isBearer
  THEN [header |-> "Authorization", scheme |-> "Bearer", cred |-> authToken]
  ELSE [header |-> "X-API-Secret", scheme |-> "", cred |-> authToken]

API_SECRET == <<"API_SECRET">>

NoAuth == [header |-> "", scheme |-> "", cred |-> Absent]
NoCall == [op |-> "none", userId |-> Absent, auth |-> NoAuth, window |-> <<>>]
\* One GET of the client: op is the path, window is <<startDate, endDate>> in
\* minutes when the handler computed one (fetch), else <<>>.
ApiCall(op, userId, auth, window) ==
  [op |-> op, userId |-> userId, auth |-> auth, window |-> window]

\* What the remote API can answer to a call, `remote` being the readings it holds.
InWindow(d, window) ==
  \/ window = <<>>
  \/ \E t \in DateParse(d) : t /= Absent /\ window[1] <= t[1] /\ t[1] <= window[2]

OkResponse(samples) ==
  [kind |-> "ok", status |-> 200, samples |-> samples, error |-> Absent]
StatusResponse(status, error) ==
  [kind |-> "status", status |-> status, samples |-> {}, error |-> error]
NetworkError == [kind |-> "network", status |-> 0, samples |-> {}, error |-> Absent]
TimeoutError == [kind |-> "timeout", status |-> 0, samples |-> {}, error |-> Absent]
NoResponse == [kind |-> "none", status |-> 0, samples |-> {}, error |-> Absent]

\* A remote call made without a timeout to a remote API that never answers.
Responses_NoAnswer(call, remote) == {}

\* What the remote API can answer to a call; the client is built with
\* `timeout: 30000`, so without an answer the request ends as a timeout error.
Responses(call, remote) ==
  (IF call.op = "latest"
   THEN {OkResponse({d}) : d \in remote}
   ELSE {OkResponse({d \in remote : InWindow(d, call.window)})})
  \cup {StatusResponse(404, Absent), StatusResponse(500, <<"storage failure">>),
        NetworkError, TimeoutError}

\* The message of the error axios rejects with.
AxiosMessage(resp) ==
  IF resp.kind = "status" THEN <<"Request failed with status code ", ToString(resp.status)>>
  ELSE IF resp.kind = "timeout" THEN <<"timeout of 30000ms exceeded">>
  ELSE <<"Network Error">>

Returned(samples) ==
  [thrown |-> FALSE, isNull |-> FALSE, samples |-> samples, message |-> Absent, error |-> Absent]
ReturnedNull ==
  [thrown |-> FALSE, isNull |-> TRUE, samples |-> {}, message |-> Absent, error |-> Absent]
Thrown(message, error) ==
  [thrown |-> TRUE, isNull |-> FALSE, samples |-> {}, message |-> message, error |-> error]

\* A getGlucoseReadings that answers "no readings" to a 404 as its siblings do.
getGlucoseReadings_Null404(resp) ==
  IF resp.kind = "ok" THEN Returned(resp.samples)
  ELSE IF resp.kind = "status" /\ resp.status = 404 THEN Returned({})
  ELSE Thrown(AxiosMessage(resp), resp.error)

\* getGlucoseReadings: no try/catch, every failure propagates.
getGlucoseReadings(resp) ==
  IF resp.kind = "ok" THEN Returned(resp.samples)
  ELSE Thrown(AxiosMessage(resp), resp.error)

\* A getLatestGlucose that takes every HTTP error status for "no data".
getLatestGlucose_NullOnAnyStatus(resp) ==
  IF resp.kind = "ok" THEN Returned(resp.samples)
  ELSE IF resp.kind = "status" THEN ReturnedNull
  ELSE Thrown(AxiosMessage(resp), resp.error)

\* getLatestGlucose: 404 is "no data" (null), everything else is rethrown.
getLatestGlucose(resp) ==
  IF resp.kind = "ok" THEN Returned(resp.samples)
  ELSE IF resp.kind = "status" /\ resp.status = 404 THEN ReturnedNull
  ELSE Thrown(AxiosMessage(resp), resp.error)

\* getGlucoseStats: as getLatestGlucose.
getGlucoseStats(resp) ==
  IF resp.kind = "ok" THEN Returned(resp.samples)
  ELSE IF resp.kind = "status" /\ resp.status = 404 THEN ReturnedNull
  ELSE Thrown(AxiosMessage(resp), resp.error)

\* A client method that sends its request again when the first one fails.
Requests_RetryOnce(call) == 2

\* The HTTP requests one call of a client method sends: each method has one
\* `await this.client.get(...)` and no loop around it.
Requests(call) == 1

ClientReturn(op, resp) ==
  IF op = "latest" THEN getLatestGlucose(resp)
  ELSE IF op = "stats" THEN getGlucoseStats(resp)
  ELSE getGlucoseReadings(resp)

\* ------------------------------------------------------------------ tool handler
\* A switch that has lost its 'fetch' case.
CaseLabels_NoFetch(v) ==
  IF v = "stdio"
  THEN {"get_glucose_readings", "get_latest_glucose", "get_glucose_stats"}
  ELSE {"search", "get_glucose_readings", "get_latest_glucose", "get_glucose_stats"}

\* The case labels of the CallTool switch.
CaseLabels(v) ==
  IF v = "stdio"
  THEN {"get_glucose_readings", "get_latest_glucose", "get_glucose_stats"}
  ELSE {"search", "fetch", "get_glucose_readings", "get_latest_glucose", "get_glucose_stats"}

\* A resolution in which every server lets the caller name the user.
ResolveUserId_FromArgument(v, args, defaultUserId) ==
  IF Truthy(args.userId) THEN args.userId
  ELSE IF v = "oauth" THEN <<"oauth-user">>
  ELSE defaultUserId

\* A resolution that never looks at the argument.
ResolveUserId_IgnoreArgument(v, args, defaultUserId) ==
  IF v = "oauth" THEN <<"oauth-user">> ELSE defaultUserId

\* A resolution that prefers the environment to the argument.
ResolveUserId_DefaultFirst(v, args, defaultUserId) ==
  IF v = "oauth" THEN <<"oauth-user">>
  ELSE IF Truthy(defaultUserId) THEN defaultUserId
  ELSE args.userId

\* http, stdio: const userId = (args?.userId as string) || DEFAULT_USER_ID
\* oauth:       const userId = 'oauth-user'
ResolveUserId(v, args, defaultUserId) ==
  IF v = "oauth" THEN <<"oauth-user">>
  ELSE IF Truthy(args.userId) THEN args.userId
  ELSE defaultUserId

\* The client the handler calls through: oauth builds one per invocation with
\* the session's bearer token, http and stdio share the module-level `api`.
ClientAuth(v, accessToken) ==
  IF v = "oauth" THEN HealthDataAPI(accessToken, TRUE) ELSE HealthDataAPI(API_SECRET, FALSE)

\* How the synchronous part of the handler ends: with a result, or suspended
\* on one call of the remote API.
Finish(result) == [kind |-> "result", result |-> result, call |-> NoCall]
Await(call) == [kind |-> "call", result |-> NoResult, call |-> call]

\* A fetch that asks the remote API before it looks at the id.
FetchBegin_NoValidation(v, args, userId, auth) ==
  {Await(ApiCall("readings", userId, auth, <<>>))}

\* case 'fetch', up to the await.
FetchBegin(v, args, userId, auth) ==
  IF ~Truthy(args.id)
  THEN {Finish(Caught(v, <<"ID parameter is required">>, Absent))}
  ELSE LET parts == SplitColon(args.id)
           type == Destructure(parts, 1)
           timestamp == Destructure(parts, 2)
       IN IF type /= <<"reading">>
          THEN {Finish(Caught(v, <<"Unknown type: ">> \o type, Absent))}
          ELSE {IF targetDate = Absent
                \* NaN: startDate.toISOString() throws RangeError
                THEN Finish(Caught(v, <<"Invalid time value">>, Absent))
                ELSE Await(ApiCall("readings", userId, auth,
                                   <<targetDate[1] - 60, targetDate[1] + 60>>))
                : targetDate \in DateParse(timestamp)}

\* A handler that goes on without an access token.
CallToolBegin_NoTokenCheck(v, name, args, accessToken, defaultUserId) ==
  IF name \notin CaseLabels(v)
  THEN {Finish(Caught(v, <<"Unknown tool: ", name>>, Absent))}
  ELSE {Await(ApiCall("readings", ResolveUserId(v, args, defaultUserId),
                      ClientAuth(v, accessToken), <<>>))}

\* The CallTool handler from its entry to its first await (or its return).
\* search: the window parseGlucoseDateQuery computes is relative to the clock;
\* the remote readings are taken to lie inside it.  startDate, endDate and
\* limit of the other tools are passed through and not modelled.
CallToolBegin(v, name, args, accessToken, defaultUserId) ==
  LET userId == ResolveUserId(v, args, defaultUserId)
      auth == ClientAuth(v, accessToken)
  IN IF v = "oauth" /\ ~Truthy(accessToken) THEN {Finish(ErrorResult(ReauthText))}
     ELSE IF v /= "oauth" /\ ~Truthy(userId) THEN {Finish(ErrorResult(UserIdText))}
     ELSE IF name \notin CaseLabels(v)
     THEN {Finish(Caught(v, <<"Unknown tool: ", name>>, Absent))}
     ELSE IF name = "search"
     THEN IF ~Truthy(args.query)
          THEN {Finish(Caught(v, <<"Query parameter is required">>, Absent))}
          ELSE {Await(ApiCall("readings", userId, auth, <<>>))}
     ELSE IF name = "fetch" THEN FetchBegin(v, args, userId, auth)
     ELSE IF name = "get_glucose_readings"
     THEN {Await(ApiCall("readings", userId, auth, <<>>))}
     ELSE IF name = "get_latest_glucose"
     THEN {Await(ApiCall("latest", userId, auth, <<>>))}
     ELSE {Await(ApiCall("stats", userId, auth, <<>>))}

\* A find that takes any reading of the window.
FindReading_AnyInWindow(samples, timestamp) == samples

\* readings.find(r => r.start_date === timestamp): the readings that qualify.
FindReading(samples, timestamp) == {d \in samples : d = timestamp}

\* case 'search': id: `reading:${reading.date}`
SearchId(date) == <<"reading", ":">> \o date

\* The CallTool handler from the answer of the remote API to its return.
CallToolContinue(v, name, args, call, resp) ==
  LET r == ClientReturn(call.op, resp)
  IN IF r.thrown THEN Caught(v, r.message, r.error)
     ELSE IF name = "search"
     THEN PlainResult(JsonText,
            [kind |-> "results", dates |-> r.samples,
             ids |-> {SearchId(d) : d \in r.samples}])
     ELSE IF name = "fetch"
     THEN LET timestamp == Destructure(SplitColon(args.id), 2)
              reading == FindReading(r.samples, timestamp)
          IN IF reading = {}
             THEN Caught(v, <<"Reading not found for ID: ">> \o args.id, Absent)
             ELSE PlainResult(JsonText,
                    [kind |-> "reading", dates |-> reading, ids |-> {args.id}])
     ELSE IF name = "get_glucose_readings"
     THEN PlainResult(JsonText, [kind |-> "readings", dates |-> r.samples, ids |-> {}])
     ELSE IF name = "get_latest_glucose"
     THEN IF r.isNull
          THEN PlainResult(<<"No glucose readings found for this user.">>, NoPayload)
          ELSE PlainResult(JsonText, [kind |-> "latest", dates |-> r.samples, ids |-> {}])
     ELSE IF r.isNull
          THEN PlainResult(<<"No glucose data found for the specified time range.">>, NoPayload)
          ELSE PlainResult(JsonText, [kind |-> "stats", dates |-> {}, ids |-> {}])

\* ------------------------------------------------------------------ state
VARIABLES
  variant,          \* which of the three servers this process is
  DEFAULT_USER_ID,  \* process.env.USER_ID || ''
  remote,           \* the reading dates the remote API holds
  nextUuid,         \* how many identifiers randomUUID() has handed out, plus one
  conn,             \* per GET /sse request: the handler's position and its transport
  transports,       \* Map sessionId -> SSEServerTransport (the connection owning it)
  sessionTokens,    \* Map sessionId -> access token (oauth)
  serverTransport,  \* the shared Server's single transport (Protocol._transport)
  msg,              \* per POST /message request: its handling
  answered          \* the last request to another route, and its answer

vars ==
  <<variant, DEFAULT_USER_ID, remote, nextUuid, conn, transports, sessionTokens,
    serverTransport, msg, answered>>

\* A delete that, when the key is already gone, drops some other entry.
MapDelete_DropsAnother(map, k) ==
  IF k \in DOMAIN map THEN [y \in DOMAIN map \ {k} |-> map[y]]
  ELSE IF DOMAIN map = {} THEN map
  ELSE [y \in DOMAIN map \ {CHOOSE z \in DOMAIN map : TRUE} |-> map[y]]

\* Map.set / Map.delete / Map.get
MapSet(map, k, x) == [y \in DOMAIN map \cup {k} |-> IF y = k THEN x ELSE map[y]]
MapDelete(map, k) == [y \in DOMAIN map \ {k} |-> map[y]]
MapGet(map, k) == IF k \in DOMAIN map THEN map[k] ELSE Absent
EmptyMap == [y \in {} |-> Absent]

IdleConn ==
  [pc |-> "idle", bearer |-> Absent, sessionId |-> Absent, sseOpen |-> FALSE,
   listening |-> FALSE, closed |-> FALSE, errored |-> FALSE]

\* The JSON body of a response of the router: its error text, the session id
\* it repeats and the session ids it lists.  The transport's own responses
\* ("Accepted", "SSE connection not established") are fixed texts.
NoBody == [error |-> <<>>, sessionId |-> Absent, availableSessions |-> {}]

IdleMsg ==
  [pc |-> "idle", sessionId |-> Absent, req |-> ListRequest, status |-> 0,
   dispatched |-> FALSE, store |-> Absent, accessToken |-> Absent,
   captured |-> Absent, call |-> NoCall, calls |-> 0, resp |-> NoResponse,
   result |-> NoResult, stream |-> Absent, scope |-> Absent,
   responses |-> 0, body |-> NoBody]

NoAnswer == [route |-> "none", status |-> 0]
Answer(route, status) == [route |-> route, status |-> status]

\* The stdio server's one transport, connected in main().
StdioTransport == Some(0)

\* A getCurrentAccessToken that reads a module-level "current session" (the one
\* whose token was stored last) instead of the execution's own store.
getCurrentAccessToken_LastSession(store) ==
  IF DOMAIN sessionTokens = {} THEN Absent
  ELSE sessionTokens[CHOOSE s \in DOMAIN sessionTokens :
                       \A t \in DOMAIN sessionTokens : s[2] >= t[2]]

\* getCurrentAccessToken(), `store` being sessionContext.getStore() of the
\* execution that calls it.
getCurrentAccessToken(store) ==
  IF ~Truthy(store) THEN Absent ELSE MapGet(sessionTokens, store)

\* transport.send(): the event reaches the stream the transport writes to while
\* that stream is open; otherwise send throws ("Not connected") and nothing is
\* written.  The Server answers through the transport it held at dispatch
\* (`captured`, a local of the dispatch: gone once the answer is sent).
Deliver(captured) ==
  IF captured = StdioTransport THEN captured
  ELSE IF captured /= Absent /\ conn[captured[1]].sseOpen THEN captured
  ELSE Absent

\* The Server's request handling from onmessage to the handler's first await.
Dispatched(rec, req, store, captured) ==
  LET base == [rec EXCEPT !.dispatched = TRUE, !.store = store, !.captured = captured]
  IN IF req.method = "tools/list"
     THEN {[base EXCEPT !.pc = "done", !.result = ListResult(variant),
                       !.stream = Deliver(captured)]}
     ELSE LET accessToken ==
                IF variant = "oauth" THEN getCurrentAccessToken(store) ELSE Absent
          IN {IF o.kind = "result"
              THEN [base EXCEPT !.pc = "done", !.accessToken = accessToken,
                                !.result = o.result, !.stream = Deliver(captured)]
              ELSE [base EXCEPT !.pc = "api", !.accessToken = accessToken,
                                !.call = o.call, !.calls = @ + Requests(o.call)]
              : o \in CallToolBegin(variant, req.name, req.args, accessToken,
                                    DEFAULT_USER_ID)}

\* ------------------------------------------------------------------ GET /sse
\* The GET /sse and POST /message requests the server has received so far.
Requested ==
  Cardinality({c \in Conns : conn[c].pc /= "idle"})
    + Cardinality({m \in Msgs : msg[m].pc /= "idle"})

\* Requests are numbered in the order they arrive.
Arrives(c) ==
  /\ conn[c].pc = "idle" /\ (IF c = 1 THEN TRUE ELSE conn[c - 1].pc /= "idle")
  /\ Requested < MaxReq

\* A stream-open that takes the bearer token as optional.
Unauthorized_Never(accessToken) == FALSE

\* if (!accessToken) { ... return res.status(401) ... }
Unauthorized(accessToken) == ~Truthy(accessToken)

\* A stream-open that connects the transport and leaves it out of the registry.
OAuthGetSse_Unregistered(c, bearer) ==
  /\ variant = "oauth"
  /\ Arrives(c)
  /\ IF ~Truthy(bearer)
     THEN /\ conn' = [conn EXCEPT ![c].pc = "unauthorized"]
          /\ UNCHANGED <<nextUuid, serverTransport>>
     ELSE /\ conn' = [conn EXCEPT ![c] = [@ EXCEPT !.pc = "introspect",
                                                  !.bearer = bearer,
                                                  !.sessionId = Uuid(nextUuid),
                                                  !.sseOpen = TRUE]]
          /\ nextUuid' = nextUuid + 1
          /\ serverTransport' = Some(c)
  /\ UNCHANGED <<variant, DEFAULT_USER_ID, remote, answered, transports, sessionTokens, msg>>

\* oauth app.get('/sse') up to `await axios.post(.../oauth/introspect)`:
\* 401 without a bearer token; else the transport is built (its sessionId is
\* drawn in the constructor), the shared server is connected to it (the
\* endpoint event announcing the session id is written) and it is registered.
\* `await server.connect(transport)` waits for no input or output (start()
\* only writes), so transports.set runs in the same turn of the event loop,
\* before any other request is handled.
\* `bearer`: the token of the Authorization header, Absent without one.
OAuthGetSse(c, bearer) ==
  /\ variant = "oauth"
  /\ Arrives(c)
  /\ IF Unauthorized(bearer)
     THEN /\ conn' = [conn EXCEPT ![c].pc = "unauthorized"]
          /\ UNCHANGED <<nextUuid, transports, serverTransport>>
     ELSE /\ conn' = [conn EXCEPT ![c] = [@ EXCEPT !.pc = "introspect",
                                                  !.bearer = bearer,
                                                  !.sessionId = Uuid(nextUuid),
                                                  !.sseOpen = TRUE]]
          /\ nextUuid' = nextUuid + 1
          /\ serverTransport' = Some(c)
          /\ transports' = MapSet(transports, Uuid(nextUuid), c)
  /\ UNCHANGED <<variant, DEFAULT_USER_ID, remote, answered, sessionTokens, msg>>

\* oauth app.get('/sse') after the introspection call: the token is stored
\* whether introspection succeeded or failed, then the close and error
\* listeners are put on the request.
IntrospectReturn(c) ==
  /\ variant = "oauth"
  /\ conn[c].pc = "introspect"
  /\ sessionTokens' = MapSet(sessionTokens, conn[c].sessionId, conn[c].bearer)
  /\ conn' = [conn EXCEPT ![c] = [@ EXCEPT !.pc = "established",
                                           !.listening = ~conn[c].closed]]
  /\ UNCHANGED <<variant, DEFAULT_USER_ID, remote, answered, nextUuid, transports,
                 serverTransport, msg>>

\* http app.get('/sse'): transport, registration, onclose, connect, with no
\* await before the connect.  The request's headers are never read, so an
\* Authorization header is no input of the handler.
HttpGetSse(c) ==
  /\ variant = "http"
  /\ Arrives(c)
  /\ conn' = [conn EXCEPT ![c] = [@ EXCEPT !.pc = "established",
                                          !.sessionId = Uuid(nextUuid),
                                          !.sseOpen = TRUE,
                                          !.listening = TRUE]]
  /\ nextUuid' = nextUuid + 1
  /\ transports' = MapSet(transports, Uuid(nextUuid), c)
  /\ serverTransport' = Some(c)
  /\ UNCHANGED <<variant, DEFAULT_USER_ID, remote, answered, sessionTokens, msg>>

\* A listener that blanks the credential (set(sessionId, undefined)) instead of
\* removing its entry.
Teardown_BlankCredential(c) ==
  /\ transports' = MapDelete(transports, conn[c].sessionId)
  /\ sessionTokens' =
       IF conn[c].sessionId \in DOMAIN sessionTokens
       THEN MapSet(sessionTokens, conn[c].sessionId, Absent)
       ELSE sessionTokens

\* A listener that releases the stream handle and keeps the credential.
Teardown_RegistryOnly(c) ==
  /\ transports' = MapDelete(transports, conn[c].sessionId)
  /\ sessionTokens' = sessionTokens

\* What a rejected server.connect(transport) leaves in the shared Server: the
\* Server takes the transport before it starts it, so it may keep the failed
\* one or the one it had (the MCP SDK is no part of the source).
AfterFailedConnect(c) == {serverTransport, Some(c)}

\* http app.get('/sse') when server.connect(transport) rejects (start() throws:
\* the response cannot be written).  The transport was registered before the
\* connect and the handler has no try/catch: the rejection leaves the handler
\* and nothing removes the entry.  (Where the runtime ends the process on an
\* unhandled rejection, the server is gone altogether.)
HttpGetSseFails(c) ==
  /\ variant = "http"
  /\ Arrives(c)
  /\ conn' = [conn EXCEPT ![c] = [@ EXCEPT !.pc = "failed",
                                          !.sessionId = Uuid(nextUuid)]]
  /\ nextUuid' = nextUuid + 1
  /\ transports' = MapSet(transports, Uuid(nextUuid), c)
  /\ serverTransport' \in AfterFailedConnect(c)
  /\ UNCHANGED <<variant, DEFAULT_USER_ID, remote, answered, sessionTokens, msg>>

\* oauth app.get('/sse') when `await server.connect(transport)` rejects: the
\* catch answers 500; transports.set and sessionTokens.set were not reached.
OAuthGetSseFails(c, bearer) ==
  /\ variant = "oauth"
  /\ Arrives(c)
  /\ ~Unauthorized(bearer)
  /\ conn' = [conn EXCEPT ![c] = [@ EXCEPT !.pc = "failed",
                                          !.bearer = bearer,
                                          !.sessionId = Uuid(nextUuid)]]
  /\ nextUuid' = nextUuid + 1
  /\ serverTransport' \in AfterFailedConnect(c)
  /\ UNCHANGED <<variant, DEFAULT_USER_ID, remote, answered, transports, sessionTokens, msg>>

\* The listeners' body: transports.delete(sessionId); sessionTokens.delete(sessionId)
\* (http: only the first).
Teardown(c) ==
  /\ transports' = MapDelete(transports, conn[c].sessionId)
  /\ sessionTokens' =
       IF variant = "oauth" THEN MapDelete(sessionTokens, conn[c].sessionId)
       ELSE sessionTokens

\* The client disconnects: the response and the request emit 'close'.  The
\* transport drops its stream and calls onclose, through which the Server
\* forgets its transport; the application's listener runs if it is in place.
\* A listener put on a request that has already closed is never called.
StreamClose(c) ==
  /\ conn[c].sseOpen
  /\ conn' = [conn EXCEPT ![c] = [@ EXCEPT !.sseOpen = FALSE, !.closed = TRUE,
                                           !.listening = FALSE]]
  /\ serverTransport' = Absent
  /\ IF conn[c].listening THEN Teardown(c)
     ELSE UNCHANGED <<transports, sessionTokens>>
  /\ UNCHANGED <<variant, DEFAULT_USER_ID, remote, answered, nextUuid, msg>>

\* oauth: the request emits 'error' (the stream is still open; 'close' follows).
ReqError(c) ==
  /\ variant = "oauth"
  /\ conn[c].listening
  /\ ~conn[c].errored
  /\ conn' = [conn EXCEPT ![c].errored = TRUE]
  /\ Teardown(c)
  /\ UNCHANGED <<variant, DEFAULT_USER_ID, remote, answered, nextUuid, serverTransport, msg>>

\* ------------------------------------------------------------------ POST /message
\* A server that takes the next message only when every earlier one is answered.
Starts_Serial(m) ==
  /\ msg[m].pc = "idle"
  /\ \A n \in Msgs : n < m => msg[n].pc = "done"
  /\ Requested < MaxReq

Starts(m) ==
  /\ msg[m].pc = "idle" /\ (IF m = 1 THEN TRUE ELSE msg[m - 1].pc /= "idle")
  /\ Requested < MaxReq

\* The sessionId query parameters a client can send: none, one no transport
\* has, or one that a transport was given.
SessionIds ==
  {Absent, StrangerId} \cup {conn[c].sessionId : c \in {d \in Conns : conn[d].sessionId /= Absent}}

\* res.writeHead(status).end(...) / res.status(status).json(...): a response
\* is started (res.headersSent becomes true).
Respond(rec, status) == [rec EXCEPT !.status = status, !.responses = @ + 1]

\* A catch that answers 500 whether or not a response has been started.
CatchRespond_Unguarded(rec) == Respond(rec, 500)

\* catch (error) { if (!res.headersSent) { res.status(500).json(...) } }
CatchRespond(rec) == IF rec.responses > 0 THEN rec ELSE Respond(rec, 500)

\* The body of the router's 404.  http: { error, sessionId, availableSessions:
\* Array.from(transports.keys()) }; oauth: { error }.
NotFoundBody(v, sessionId) ==
  IF v = "http"
  THEN [error |-> <<"Session not found">>, sessionId |-> sessionId,
        availableSessions |-> DOMAIN transports]
  ELSE [error |-> <<"No active SSE connection for this session. Please connect to /sse first.">>,
        sessionId |-> Absent, availableSessions |-> {}]

\* The body of the router's 400.
BadRequestBody(v) ==
  [error |-> IF v = "http" THEN <<"Missing sessionId parameter">>
             ELSE <<"sessionId query parameter is required">>,
   sessionId |-> Absent, availableSessions |-> {}]

\* res.status(400) / res.status(404): answered, nothing dispatched.
Rejected(rec, status) ==
  [Respond(rec, status) EXCEPT
     !.pc = "done",
     !.body = IF status = 404 THEN NotFoundBody(variant, rec.sessionId)
              ELSE BadRequestBody(variant)]

\* A router that falls back to some open transport when the session id is
\* missing or unknown.
Route_Fallback(sessionId) ==
  IF sessionId \in DOMAIN transports
  THEN [status |-> 0, transport |-> Some(transports[sessionId])]
  ELSE IF DOMAIN transports /= {}
  THEN [status |-> 0,
        transport |-> Some(transports[CHOOSE s \in DOMAIN transports : TRUE])]
  ELSE [status |-> 404, transport |-> Absent]

\* A router that refuses a session one of whose invocations returned an error.
Route_AfterError(sessionId) ==
  IF ~Truthy(sessionId) THEN [status |-> 400, transport |-> Absent]
  ELSE IF sessionId \notin DOMAIN transports THEN [status |-> 404, transport |-> Absent]
  ELSE IF \E n \in Msgs : /\ msg[n].sessionId = sessionId
                          /\ msg[n].result.isError = Some(TRUE)
  THEN [status |-> 404, transport |-> Absent]
  ELSE [status |-> 0, transport |-> Some(transports[sessionId])]

\* The router of app.post('/message'): which transport, if any, gets the message.
Route(sessionId) ==
  IF ~Truthy(sessionId) THEN [status |-> 400, transport |-> Absent]
  ELSE IF sessionId \notin DOMAIN transports THEN [status |-> 404, transport |-> Absent]
  ELSE [status |-> 0, transport |-> Some(transports[sessionId])]

\* A sessionContext that is entered and never left (enterWith).
sessionContextRun_EnterWith(outer, sessionId) == [inside |-> sessionId, after |-> sessionId]

\* sessionContext.run(sessionId, fn): the store `fn` and the asynchronous work
\* it starts see (inside), and the store of the calling scope once run has
\* returned (after), `outer` being the store of the calling scope before.
sessionContextRun(outer, sessionId) == [inside |-> sessionId, after |-> outer]

\* oauth app.post('/message'): the body is already parsed by express.json(), so
\* from the lookup to the handler's first await nothing else runs.
\* handlePostMessage answers 500 and throws when its stream is gone; the catch
\* finds the headers sent and adds nothing.
OAuthPostMessage(m, sessionId, req) ==
  /\ variant = "oauth"
  /\ Starts(m)
  /\ LET rec == [msg[m] EXCEPT !.sessionId = sessionId]
         route == Route(sessionId)
         \* the route handler itself runs in no sessionContext
         context == sessionContextRun(msg[m].scope, sessionId)
     IN IF route.transport = Absent
        THEN msg' = [msg EXCEPT ![m] = Rejected(rec, route.status)]
        ELSE IF ~conn[route.transport[1]].sseOpen
        THEN msg' = [msg EXCEPT ![m] = CatchRespond([Respond(rec, 500) EXCEPT
                                                       !.pc = "done",
                                                       !.store = context.inside,
                                                       !.scope = context.after])]
        ELSE \E next \in Dispatched([Respond(rec, 202) EXCEPT !.req = req,
                                                 !.scope = context.after], req,
                                    context.inside, serverTransport) :
               msg' = [msg EXCEPT ![m] = next]
  /\ UNCHANGED <<variant, DEFAULT_USER_ID, remote, answered, nextUuid, conn, transports,
                 sessionTokens, serverTransport>>

\* http app.post('/message'): the lookup, then handlePostMessage reads the raw
\* body (an await on the request stream) before it hands the message on.
HttpPostMessage(m, sessionId, req) ==
  /\ variant = "http"
  /\ Starts(m)
  /\ LET rec == [msg[m] EXCEPT !.sessionId = sessionId]
         route == Route(sessionId)
     IN IF route.transport = Absent
        THEN msg' = [msg EXCEPT ![m] = Rejected(rec, route.status)]
        ELSE IF ~conn[route.transport[1]].sseOpen
        THEN msg' = [msg EXCEPT ![m] = CatchRespond([Respond(rec, 500) EXCEPT !.pc = "done"])]
        ELSE msg' = [msg EXCEPT ![m] = [rec EXCEPT !.pc = "body", !.req = req]]
  /\ UNCHANGED <<variant, DEFAULT_USER_ID, remote, answered, nextUuid, conn, transports,
                 sessionTokens, serverTransport>>

\* http: the body has been read; the transport's onmessage runs the Server's
\* handler and handlePostMessage answers 202.
HttpBodyRead(m) ==
  /\ variant = "http"
  /\ msg[m].pc = "body"
  /\ \E next \in Dispatched(Respond(msg[m], 202), msg[m].req, Absent,
                            serverTransport) :
       msg' = [msg EXCEPT ![m] = next]
  /\ UNCHANGED <<variant, DEFAULT_USER_ID, remote, answered, nextUuid, conn, transports,
                 sessionTokens, serverTransport>>

\* stdio: a request read from stdin goes straight to the Server's handler.
StdinMessage(m, req) ==
  /\ variant = "stdio"
  /\ Starts(m)
  /\ \E next \in Dispatched([msg[m] EXCEPT !.req = req], req, Absent, serverTransport) :
       msg' = [msg EXCEPT ![m] = next]
  /\ UNCHANGED <<variant, DEFAULT_USER_ID, remote, answered, nextUuid, conn, transports,
                 sessionTokens, serverTransport>>

\* The remote API answers (or the 30 s axios timeout fires): the handler
\* resumes, returns its result and the Server sends it.  K: the kinds of answer
\* the run lets the remote API give.
ApiReturn(m, K) ==
  /\ msg[m].pc = "api"
  /\ \E resp \in {r \in Responses(msg[m].call, remote) : r.kind \in K} :
       msg' = [msg EXCEPT ![m] =
                 [@ EXCEPT !.pc = "done", !.resp = resp,
                           !.result = CallToolContinue(variant, msg[m].req.name,
                                                       msg[m].req.args, msg[m].call, resp),
                           !.stream = Deliver(msg[m].captured), !.captured = Absent]]
  /\ UNCHANGED <<variant, DEFAULT_USER_ID, remote, answered, nextUuid, conn, transports,
                 sessionTokens, serverTransport>>

\* ------------------------------------------------------------------ other routes
\* app.get('/health'): res.json of constants and the clock.
Health ==
  /\ variant /= "stdio"
  /\ answered' = Answer("/health", 200)
  /\ UNCHANGED <<variant, DEFAULT_USER_ID, remote, nextUuid, conn, transports,
                 sessionTokens, serverTransport, msg>>

\* http app.get('/tools'): res.json({ tools: TOOLS }).
GetTools ==
  /\ variant = "http"
  /\ answered' = Answer("/tools", 200)
  /\ UNCHANGED <<variant, DEFAULT_USER_ID, remote, nextUuid, conn, transports,
                 sessionTokens, serverTransport, msg>>

\* oauth app.get('/.well-known/oauth-protected-resource'): res.json of constants.
ProtectedResourceMetadata ==
  /\ variant = "oauth"
  /\ answered' = Answer("/.well-known/oauth-protected-resource", 200)
  /\ UNCHANGED <<variant, DEFAULT_USER_ID, remote, nextUuid, conn, transports,
                 sessionTokens, serverTransport, msg>>

\* oauth app.get('/oauth/authorize'): a redirect to the backend; the uuid it
\* draws for `state` goes into the URL and is kept nowhere.
OAuthAuthorize ==
  /\ variant = "oauth"
  /\ answered' = Answer("/oauth/authorize", 302)
  /\ UNCHANGED <<variant, DEFAULT_USER_ID, remote, nextUuid, conn, transports,
                 sessionTokens, serverTransport, msg>>

\* The access token the n-th successful code exchange returns.
Granted(n) == <<"granted", n>>
\* The tokens sessionTokens holds from the callback route.
GrantedKeys == {s \in DOMAIN sessionTokens : sessionTokens[s][1] = "granted"}

\* oauth app.get('/oauth/callback').  query: what the request carries ("error",
\* "nocode", "code"); exchange: what POST /oauth/token gives ("token", a body
\* without access_token "notoken", a rejection "fail").  On success the token
\* is stored under a fresh uuid.  The handler keeps nothing across its await.
OAuthCallback(query, exchange) ==
  /\ variant = "oauth"
  /\ IF query /= "code"
     THEN /\ answered' = Answer("/oauth/callback", 400)
          /\ UNCHANGED <<nextUuid, sessionTokens>>
     ELSE IF exchange /= "token"
     THEN /\ answered' = Answer("/oauth/callback", 500)
          /\ UNCHANGED <<nextUuid, sessionTokens>>
     ELSE /\ Cardinality(GrantedKeys) < MaxCallback
          /\ answered' = Answer("/oauth/callback", 200)
          /\ sessionTokens' = MapSet(sessionTokens, Uuid(nextUuid),
                                     Granted(Cardinality(GrantedKeys) + 1))
          /\ nextUuid' = nextUuid + 1
  /\ UNCHANGED <<variant, DEFAULT_USER_ID, remote, conn, transports,
                 serverTransport, msg>>

\* ------------------------------------------------------------------ inputs
ConfiguredUser == <<"configured-user">>
Alice == <<"alice">>

IdFull == <<"reading", ":">> \o TsFull
IdDay == <<"reading", ":">> \o TsDay
IdNote == <<"note", ":">> \o TsDay
IdBare == <<"reading">>

ArgsFor(name) ==
  IF name = "search"
  THEN {[userId |-> u, query |-> q, id |-> Absent] :
          u \in {Absent, Alice}, q \in {Absent, <<"last week">>}}
  ELSE IF name = "fetch"
  THEN {[userId |-> u, query |-> Absent, id |-> i] :
          u \in {Absent, Alice}, i \in {Absent, IdFull, IdDay, IdNote, IdBare}}
  ELSE {[userId |-> u, query |-> Absent, id |-> Absent] : u \in {Absent, Alice}}

ToolRequests ==
  {ListRequest} \cup
  UNION {{CallRequest(name, a) : a \in ArgsFor(name)} :
           name \in Range(HttpToolNames) \cup {"bogus"}}

\* The request of the runs with several sessions: a tool that calls the remote
\* API (every other request is run with one session, under SpecTool).
SessionRequests == {CallRequest("get_latest_glucose", NoArgs)}

\* ------------------------------------------------------------------ specifications
InitState(users, remotes) ==
  /\ variant \in Variants
  /\ DEFAULT_USER_ID \in users
  /\ remote \in remotes
  /\ nextUuid = 1
  /\ conn = [c \in Conns |-> IdleConn]
  /\ transports = EmptyMap
  /\ sessionTokens = EmptyMap
  /\ serverTransport = IF variant = "stdio" THEN StdioTransport ELSE Absent
  /\ msg = [m \in Msgs |-> IdleMsg]
  /\ answered = NoAnswer

ResponseKinds == {"ok", "status", "network", "timeout"}

\* C: connections, B: whether a GET /sse carries a bearer token, M: messages,
\* R: requests, K: kinds of remote answer.
NextOAuth(C, B, M, R, K) ==
  \/ \E c \in C, withBearer \in B :
       OAuthGetSse(c, IF withBearer THEN BearerOf(c) ELSE Absent)
  \/ \E c \in C : IntrospectReturn(c)
  \/ \E c \in C : variant = "oauth" /\ StreamClose(c)
  \/ \E c \in C : ReqError(c)
  \/ \E m \in M, sessionId \in SessionIds, req \in R : OAuthPostMessage(m, sessionId, req)
  \/ \E m \in M : variant = "oauth" /\ ApiReturn(m, K)

NextHttp(C, M, R, K) ==
  \/ \E c \in C : HttpGetSse(c)
  \/ \E c \in C : variant = "http" /\ StreamClose(c)
  \/ \E m \in M, sessionId \in SessionIds, req \in R : HttpPostMessage(m, sessionId, req)
  \/ \E m \in M : HttpBodyRead(m)
  \/ \E m \in M : variant = "http" /\ ApiReturn(m, K)

NextOther ==
  \/ Health
  \/ GetTools
  \/ ProtectedResourceMetadata
  \/ OAuthAuthorize
  \/ \E query \in {"error", "nocode", "code"}, exchange \in {"token", "notoken", "fail"} :
       OAuthCallback(query, exchange)

NextStdio(M, R, K) ==
  \/ \E m \in M, req \in R : StdinMessage(m, req)
  \/ \E m \in M : variant = "stdio" /\ ApiReturn(m, K)

\* With several sessions the remote API answers and every GET /sse carries its
\* bearer token (a GET /sse without one is answered 401 and changes nothing
\* the other requests see); failures and the 401 are run under SpecTool.
FewKinds == {"ok"}
WithBearer == {TRUE}

\* The OAuth server with several sessions and messages.
InitOAuth == variant = "oauth" /\ InitState({ConfiguredUser}, {{TsDay}})
SpecOAuth == InitOAuth /\ [][NextOAuth(Conns, WithBearer, Msgs, SessionRequests, FewKinds)]_vars

\* The single-tenant HTTP server, likewise.
InitHttp == variant = "http" /\ InitState({ConfiguredUser}, {{TsDay}})
SpecHttp == InitHttp /\ [][NextHttp(Conns, Msgs, SessionRequests, FewKinds)]_vars

\* Either SSE server.
Init == InitState({ConfiguredUser}, {{TsDay}}) /\ variant /= "stdio"
Next ==
  \/ NextOAuth(Conns, WithBearer, Msgs, SessionRequests, FewKinds)
  \/ NextHttp(Conns, Msgs, SessionRequests, FewKinds)
Spec == Init /\ [][Next]_vars

\* One session of either SSE server and several messages, some of which fail:
\* an unknown name, an invalid argument, a remote failure.
SeqRequests ==
  {CallRequest("bogus", NoArgs),
   CallRequest("fetch", [userId |-> Absent, query |-> Absent, id |-> IdNote]),
   CallRequest("get_latest_glucose", NoArgs)}
SeqKinds == {"ok", "status"}
InitSeq == InitState({ConfiguredUser}, {{TsDay}}) /\ variant /= "stdio"
NextSeq ==
  \/ NextOAuth({1}, WithBearer, Msgs, SeqRequests, SeqKinds)
  \/ NextHttp({1}, Msgs, SeqRequests, SeqKinds)
SpecSeq == InitSeq /\ [][NextSeq]_vars

\* Any of the three servers with one session and one message: every kind of
\* request, of configured user, of remote data and of remote answer.
InitTool == InitState({Absent, ConfiguredUser}, SUBSET ReadingDates)
NextTool ==
  \/ NextOAuth({1}, BOOLEAN, {1}, ToolRequests, ResponseKinds)
  \/ NextHttp({1}, {1}, ToolRequests, ResponseKinds)
  \/ NextStdio({1}, ToolRequests, ResponseKinds)
  \/ NextOther
SpecTool == InitTool /\ [][NextTool]_vars

\* Any of the three servers with one session and several messages, every kind
\* of remote answer, and the remote calls' scheduling: axios settles every
\* request it has sent, with the response, with a failure or, after 30 s
\* (`timeout: 30000`), with a timeout error, and the handler's continuation is
\* then run by the event loop.
InitLive == InitState({ConfiguredUser}, {{TsDay}})
NextLive ==
  \/ NextOAuth({1}, WithBearer, Msgs, SeqRequests, ResponseKinds)
  \/ NextHttp({1}, Msgs, SeqRequests, ResponseKinds)
  \/ NextStdio(Msgs, SeqRequests, ResponseKinds)
RemoteCallSettles == \A m \in Msgs : WF_vars(ApiReturn(m, ResponseKinds))
SpecLive == InitLive /\ [][NextLive]_vars /\ RemoteCallSettles

\* Either SSE server with several stream opens, some of which fail to connect,
\* and one message.
InitConnect == InitState({ConfiguredUser}, {{TsDay}}) /\ variant /= "stdio"
NextConnect ==
  \/ NextOAuth(Conns, WithBearer, {1}, SessionRequests, FewKinds)
  \/ NextHttp(Conns, {1}, SessionRequests, FewKinds)
  \/ \E c \in Conns : HttpGetSseFails(c)
  \/ \E c \in Conns : OAuthGetSseFails(c, BearerOf(c))
SpecConnect == InitConnect /\ [][NextConnect]_vars

\* ------------------------------------------------------------------ properties
\* The message m is a tool invocation the Server has handed to the handler.
Invoked(m) == msg[m].dispatched /\ msg[m].req.method = "tools/call"

\* The handler's credential precheck passes for m: an access token (oauth), a
\* user id from the argument or the environment (http, stdio).
HasCredential(m) ==
  IF variant = "oauth" THEN Truthy(msg[m].accessToken)
  ELSE Truthy(ResolveUserId(variant, msg[m].req.args, DEFAULT_USER_ID))

\* The only block of m's result, when the result has exactly one.
OnlyBlock(m) == msg[m].result.content[1]
OneTextBlock(m) == Len(msg[m].result.content) = 1 /\ OnlyBlock(m).type = "text"

\* C1: (OAuth server) the access token the tool handler obtains while it handles
\* a message routed to session i is the token stored for session i when the
\* message was routed, and never the token stored for another session.
C1_TokenOfRoutedSession ==
  [][\A m \in Msgs :
       (variant = "oauth" /\ msg[m].pc = "idle" /\ msg'[m].dispatched
          /\ msg'[m].req.method = "tools/call") =>
         /\ msg'[m].accessToken = MapGet(sessionTokens, msg'[m].sessionId)
         /\ \A s \in DOMAIN sessionTokens \ {msg'[m].sessionId} :
              msg'[m].accessToken /= sessionTokens[s]]_vars

\* Two sessions hold their tokens and a message of the older one was handled
\* with the older one's token.
C1_Witness ==
  \E m \in Msgs, c \in Conns, d \in Conns :
    /\ variant = "oauth" /\ c < d
    /\ {conn[c].sessionId, conn[d].sessionId} \subseteq DOMAIN sessionTokens
    /\ Invoked(m) /\ msg[m].sessionId = conn[c].sessionId
    /\ msg[m].accessToken = BearerOf(c)

\* C2: the result of a tool invocation that arrived for session i is written
\* to the stream of session i, never to the stream of another session.
C2_ResultOnOwnStream ==
  \A m \in Msgs :
    (Invoked(m) /\ msg[m].pc = "done" /\ msg[m].stream /= Absent) =>
      conn[msg[m].stream[1]].sessionId = msg[m].sessionId

\* C3: once the stream of a session has closed, every later POST /message with
\* that session id is answered 404 and is not dispatched.
C3_ClosedSessionGets404 ==
  [][\A m \in Msgs :
       (/\ msg[m].pc = "idle" /\ msg'[m].pc /= "idle"
        /\ \E c \in Conns : conn[c].closed /\ conn[c].sessionId = msg'[m].sessionId) =>
         (msg'[m].status = 404 /\ ~msg'[m].dispatched)]_vars

\* C4: (OAuth server) after a session's stream has closed or errored, neither
\* transports nor sessionTokens holds the session's id.
C4_NoEntryAfterClose ==
  \A c \in Conns :
    (variant = "oauth" /\ (conn[c].closed \/ conn[c].errored)) =>
      /\ conn[c].sessionId \notin DOMAIN transports
      /\ conn[c].sessionId \notin DOMAIN sessionTokens

\* The POST of m was answered `status` and nothing else happened.
RejectedWith(m, status) ==
  /\ msg'[m].pc = "done" /\ msg'[m].status = status
  /\ ~msg'[m].dispatched /\ msg'[m].calls = 0 /\ msg'[m].result = NoResult
  /\ msg'[m].stream = Absent
  /\ transports' = transports /\ sessionTokens' = sessionTokens

\* C5: a POST /message without a sessionId is answered 400, one whose sessionId
\* is not in the registry is answered 404; in both cases nothing is
\* dispatched, both maps are unchanged and the handler ends with that answer.
C5_RejectsWithoutDispatch ==
  [][\A m \in Msgs :
       (variant /= "stdio" /\ msg[m].pc = "idle" /\ msg'[m].pc /= "idle") =>
         /\ ~Truthy(msg'[m].sessionId) => RejectedWith(m, 400)
         /\ (Truthy(msg'[m].sessionId) /\ msg'[m].sessionId \notin DOMAIN transports) =>
              RejectedWith(m, 404)]_vars

\* One POST was answered 400, another 404 while a session was registered.
C5_Witness ==
  \E m \in Msgs, n \in Msgs :
    /\ msg[m].pc = "done" /\ msg[m].status = 400 /\ msg[m].sessionId = Absent
    /\ msg[n].pc = "done" /\ msg[n].status = 404 /\ msg[n].sessionId /= Absent
    /\ transports /= EmptyMap

\* C6: (OAuth server) a tool invocation for which no access token is available
\* returns isError true with the re-authentication message, whatever the
\* capability name, and makes no call to the remote API.
C6_NoTokenReauth ==
  \A m \in Msgs :
    (variant = "oauth" /\ Invoked(m) /\ ~Truthy(msg[m].accessToken)) =>
      /\ msg[m].pc = "done"
      /\ msg[m].result.isError = Some(TRUE)
      /\ OneTextBlock(m)
      /\ OnlyBlock(m).text =
           <<"\\u274c Error: No access token available. Please re-authenticate.">>
      /\ msg[m].calls = 0 /\ msg[m].call = NoCall /\ msg[m].resp = NoResponse

\* An unknown capability was invoked before the session's token was stored.
C6_Witness ==
  \E m \in Msgs :
    /\ variant = "oauth" /\ Invoked(m) /\ msg[m].req.name = "bogus"
    /\ ~Truthy(msg[m].accessToken) /\ msg[m].result = ErrorResult(ReauthText)

\* The invocation m names none of the capabilities the server lists.
UnknownName(m) == Invoked(m) /\ msg[m].req.name \notin Range(TOOLS(variant))

\* C7 as stated: invoking a name that is not one of the server's capabilities
\* returns isError true and a single text block whose text is exactly
\* "Unknown tool: <name>" (read here of invocations that have a credential).
C7_ExactUnknownToolText ==
  \A m \in Msgs :
    (UnknownName(m) /\ HasCredential(m) /\ msg[m].pc = "done") =>
      msg[m].result = ErrorResult(<<"Unknown tool: ", msg[m].req.name>>)

\* C7: invoking a name that is not one of the server's capabilities returns, without a call to
\* the remote API, isError true and a single text block: "Error: Unknown tool:
\* <name>" (with the cross-mark prefix in the OAuth server) when the
\* invocation has a credential, the missing-credential message when not.
C7_UnknownToolError ==
  \A m \in Msgs :
    UnknownName(m) =>
      /\ msg[m].pc = "done" /\ msg[m].calls = 0
      /\ msg[m].result.isError = Some(TRUE)
      /\ OneTextBlock(m)
      /\ OnlyBlock(m).text =
           IF HasCredential(m)
           THEN <<(IF variant = "oauth" THEN "\\u274c Error: " ELSE "Error: "),
                  "Unknown tool: ", msg[m].req.name>>
           ELSE IF variant = "oauth"
           THEN <<"\\u274c Error: No access token available. Please re-authenticate.">>
           ELSE UserIdText

\* The stdio server answered "Error: Unknown tool: bogus".
C7_Witness ==
  \E m \in Msgs :
    /\ variant = "stdio" /\ UnknownName(m) /\ HasCredential(m)
    /\ msg[m].result.isError = Some(TRUE)
    /\ OnlyBlock(m).text = <<"Error: ", "Unknown tool: ", "bogus">>

\* C8: fetch with the id "reading:<ISO timestamp>" of a reading the remote API
\* holds (and returns) gives that reading.
C8_FetchByIsoId ==
  \A m \in Msgs :
    (/\ Invoked(m) /\ msg[m].pc = "done" /\ HasCredential(m)
     /\ msg[m].req.name = "fetch" /\ msg[m].req.name \in CaseLabels(variant)
     /\ msg[m].req.args.id = IdFull /\ TsFull \in remote
     /\ msg[m].resp.kind \in {"none", "ok"}) =>
      /\ msg[m].result.isError = Absent
      /\ OneTextBlock(m)
      /\ OnlyBlock(m).payload.dates = {TsFull}

\* The remote API failed the call m's handler made.
RemoteFailed(m) == msg[m].pc = "done" /\ msg[m].resp.kind \in {"status", "network", "timeout"}

\* The failure is a 404 answered to the latest-reading or the statistics call.
NotFoundAsNull(m) ==
  /\ msg[m].resp.kind = "status" /\ msg[m].resp.status = 404
  /\ msg[m].call.op \in {"latest", "stats"}

\* C9 as stated: every failure of the remote API (network, any non-2xx status,
\* timeout) gives a result with a message and isError true.
C9_EveryFailureIsError ==
  \A m \in Msgs :
    RemoteFailed(m) =>
      /\ msg[m].result.isError = Some(TRUE)
      /\ OneTextBlock(m) /\ Truthy(OnlyBlock(m).text)

\* C9: every failure of the remote API gives a result, never a throw: isError
\* true with a message, except a 404 answered to get_latest_glucose or
\* get_glucose_stats, which gives the "no data" text without isError.
C9_FailureResult ==
  \A m \in Msgs :
    RemoteFailed(m) =>
      /\ OneTextBlock(m)
      /\ IF NotFoundAsNull(m)
         THEN /\ msg[m].result.isError = Absent
              /\ OnlyBlock(m).text \in
                   {<<"No glucose readings found for this user.">>,
                    <<"No glucose data found for the specified time range.">>}
         ELSE /\ msg[m].result.isError = Some(TRUE)
              /\ Len(OnlyBlock(m).text) >= 2
              /\ OnlyBlock(m).text[1] = (IF variant = "oauth" THEN "\\u274c Error: " ELSE "Error: ")

\* A search was answered 404 and returned an error result.
C9_Witness ==
  \E m \in Msgs :
    /\ RemoteFailed(m) /\ msg[m].req.name = "search"
    /\ msg[m].resp.status = 404 /\ msg[m].result.isError = Some(TRUE)

\* C10 as stated: a GET /sse without an Authorization header still yields a
\* stream and a registered session, with no credential stored for it.
C10_BearerOptional ==
  \A c \in Conns :
    (conn[c].pc /= "idle" /\ conn[c].bearer = Absent) =>
      /\ conn[c].sessionId /= Absent
      /\ conn[c].sseOpen \/ conn[c].closed
      /\ conn[c].sessionId \notin DOMAIN sessionTokens

\* The registry has no entry owned by connection c.
Unregistered(c) == \A s \in DOMAIN transports : transports[s] /= c

\* C10: the OAuth server requires the bearer token: a GET /sse without one is
\* answered 401 with no stream, no session and nothing stored, and every
\* session it opens has one.  The single-tenant HTTP server does not look at
\* the header: every GET /sse yields a stream and a session, and no credential
\* is ever stored.
C10_BearerRequiredByOAuth ==
  \A c \in Conns :
    /\ (variant = "oauth" /\ conn[c].pc /= "idle" /\ conn[c].bearer = Absent) =>
         /\ conn[c].pc = "unauthorized"
         /\ conn[c].sessionId = Absent /\ ~conn[c].sseOpen /\ ~conn[c].closed
         /\ Unregistered(c)
    /\ (variant = "oauth" /\ conn[c].pc \in {"introspect", "established"}) =>
         (Truthy(conn[c].bearer) /\ conn[c].sessionId /= Absent)
    /\ (variant = "http" /\ conn[c].pc /= "idle") =>
         /\ conn[c].pc = "established" /\ conn[c].sessionId /= Absent
         /\ sessionTokens = EmptyMap

\* The OAuth server refused a GET /sse that had no bearer token.
C10_Witness ==
  \E c \in Conns :
    /\ variant = "oauth" /\ conn[c].pc = "unauthorized" /\ conn[c].bearer = Absent
    /\ transports = EmptyMap /\ sessionTokens = EmptyMap

\* A step tears down session c again: its listener runs though an earlier
\* listener of the same session has run.
SecondTeardown(c) ==
  /\ conn[c].errored /\ conn[c].listening
  /\ conn'[c].closed /\ ~conn[c].closed

\* C11: tearing a session down a second time (the close listener after the
\* error listener) leaves transports and sessionTokens exactly as the first
\* teardown left them, and no teardown touches another session's entries.
C11_TeardownIdempotent ==
  [][\A c \in Conns :
       /\ SecondTeardown(c) =>
            (transports' = transports /\ sessionTokens' = sessionTokens)
       /\ (conn'[c] /= conn[c] /\ conn[c].listening) =>
            \A d \in Conns \ {c} :
              /\ MapGet(transports', conn[d].sessionId) = MapGet(transports, conn[d].sessionId)
              /\ MapGet(sessionTokens', conn[d].sessionId) =
                   MapGet(sessionTokens, conn[d].sessionId)]_vars

\* The error listener and then the close listener of one session have run
\* while another session is registered with its token.
C11_Witness ==
  \E c \in Conns, d \in Conns :
    /\ variant = "oauth" /\ conn[c].errored /\ conn[c].closed
    /\ conn[c].sessionId \notin DOMAIN transports
    /\ d /= c /\ conn[d].listening
    /\ MapGet(transports, conn[d].sessionId) = d
    /\ MapGet(sessionTokens, conn[d].sessionId) = conn[d].bearer

\* C12: (OAuth server) while a POST /message for session id s is handled
\* inside sessionContext.run, its asynchronous continuations included, the
\* current session is s; once the handling has completed, whether
\* handlePostMessage returned or threw, the current session is absent in the
\* calling scope, where getCurrentAccessToken returns absent.
C12_SessionScope ==
  \A m \in Msgs :
    (variant = "oauth" /\ msg[m].pc /= "idle") =>
      /\ (msg[m].dispatched \/ msg[m].status = 500) => msg[m].store = msg[m].sessionId
      /\ msg[m].pc = "api" => msg[m].store = msg[m].sessionId
      /\ msg[m].scope = Absent
      /\ getCurrentAccessToken(msg[m].scope) = Absent

\* A handler is suspended on the remote API inside session s, whose token
\* is stored, after the POST that started it has been answered.
C12_Witness ==
  \E m \in Msgs :
    /\ variant = "oauth" /\ msg[m].pc = "api" /\ msg[m].status = 202
    /\ msg[m].store = msg[m].sessionId /\ msg[m].store \in DOMAIN sessionTokens
    /\ msg[m].scope = Absent

\* The transport of connection c has been connected (the endpoint event told
\* the client its session id) and no listener has torn the session down.
Announced(c) == conn[c].sessionId /= Absent /\ conn[c].sseOpen /\ ~conn[c].errored

\* C13: in every state in which the stream-open handler has connected the
\* transport, the registry maps the session id to that transport, so a
\* message carrying the id is routable as soon as the client knows it.
C13_RegisteredWhenAnnounced ==
  \A c \in Conns :
    Announced(c) =>
      /\ conn[c].sessionId \in DOMAIN transports
      /\ transports[conn[c].sessionId] = c
      /\ Route(conn[c].sessionId).transport = Some(c)

\* The OAuth server has announced a session whose introspection is pending,
\* and a message carrying its id has been routed to it.
C13_Witness ==
  \E c \in Conns, m \in Msgs :
    /\ variant = "oauth" /\ Announced(c) /\ conn[c].pc = "introspect"
    /\ msg[m].sessionId = conn[c].sessionId /\ msg[m].dispatched

\* C14: when a session is deregistered while a message for it is in flight
\* (its handler is suspended on the remote API), the message is rejected: the
\* handler does not go on to a normal result for the closed session.
C14_InFlightRejected ==
  [][\A m \in Msgs :
       (/\ variant /= "stdio"
        /\ msg[m].pc = "api" /\ msg'[m].pc = "done"
        /\ msg[m].sessionId \notin DOMAIN transports) =>
         msg'[m].result.isError = Some(TRUE)]_vars

\* The POST of m arrives for a session that is registered and whose stream is open.
ArrivesForOpenSession(m) ==
  /\ msg[m].pc = "idle" /\ msg'[m].pc /= "idle"
  /\ msg'[m].sessionId \in DOMAIN transports
  /\ conn[transports[msg'[m].sessionId]].sseOpen

\* C15: handling a message, whatever the tool invocation returns (a result or
\* an error block), leaves the session's registry entry, stream and
\* credential as they were, and a message that arrives for a registered
\* session is dispatched, whatever earlier invocations of the session returned.
C15_ToolFailureKeepsSession ==
  [][\A m \in Msgs :
       msg'[m] /= msg[m] =>
         /\ conn' = conn /\ transports' = transports /\ sessionTokens' = sessionTokens
         /\ ArrivesForOpenSession(m) =>
              IF variant = "oauth" THEN msg'[m].dispatched /\ msg'[m].status = 202
              ELSE msg'[m].pc = "body"
         /\ msg[m].pc = "body" => (msg'[m].dispatched /\ msg'[m].status = 202)]_vars

\* An invocation of a session returned an error block after a remote failure
\* and a later message of the same session, still registered, was dispatched.
C15_Witness ==
  \E m \in Msgs, n \in Msgs :
    /\ m < n /\ msg[m].sessionId = msg[n].sessionId
    /\ msg[m].pc = "done" /\ msg[m].resp.kind = "status"
    /\ msg[m].result.isError = Some(TRUE)
    /\ msg[n].dispatched /\ msg[n].status = 202
    /\ msg[n].sessionId \in DOMAIN transports

\* The step is part of a stream open or of a stream close/error: the GET /sse
\* handler or a listener of the connection has acted.
OpenOrCloseStep == conn' /= conn

\* C16: (OAuth server) transports and sessionTokens are changed only by a
\* stream open and by a stream close or error; every other operation leaves
\* both maps unchanged.
C16_MapsChangedOnlyByOpenClose ==
  [][(variant = "oauth" /\ (transports' /= transports \/ sessionTokens' /= sessionTokens))
       => OpenOrCloseStep]_vars

\* The user id the caller asked for, or the configured one.
RequestedUser(m) ==
  IF Truthy(msg[m].req.args.userId) THEN msg[m].req.args.userId ELSE DEFAULT_USER_ID

ListedNames ==
  IF variant = "stdio"
  THEN <<"get_glucose_readings", "get_latest_glucose", "get_glucose_stats">>
  ELSE <<"search", "fetch", "get_glucose_readings", "get_latest_glucose",
         "get_glucose_stats">>

\* C18: in every state, for every session and with or without a stored
\* credential, listing the capabilities returns the same fixed descriptors:
\* five in the SSE servers, three in the stdio server.
C18_ListingStatic ==
  \A m \in Msgs :
    (msg[m].dispatched /\ msg[m].req.method = "tools/list") =>
      /\ msg[m].pc = "done"
      /\ msg[m].result.tools = ListedNames
      /\ msg[m].result.isError = Absent /\ msg[m].result.content = <<>>
      /\ msg[m].calls = 0

\* The OAuth server listed its five capabilities for a session whose token
\* was not stored.
C18_Witness ==
  \E m \in Msgs :
    /\ variant = "oauth" /\ msg[m].dispatched /\ msg[m].req.method = "tools/list"
    /\ msg[m].sessionId \notin DOMAIN sessionTokens
    /\ Len(msg[m].result.tools) = 5

RequestedTimestamp(id) == SubSeq(id, 3, Len(id))

\* C20: fetch, when the readings the remote API returned for the window hold
\* none whose timestamp equals the requested one, returns the "not found"
\* error block after exactly one remote call.
C20_FetchNotFound ==
  \A m \in Msgs :
    (/\ Invoked(m) /\ msg[m].req.name = "fetch" /\ "fetch" \in CaseLabels(variant)
     /\ msg[m].pc = "done" /\ msg[m].resp.kind = "ok"
     /\ RequestedTimestamp(msg[m].req.args.id) \notin msg[m].resp.samples) =>
      /\ msg[m].result.isError = Some(TRUE)
      /\ OneTextBlock(m)
      /\ OnlyBlock(m).text =
           <<(IF variant = "oauth" THEN "\\u274c Error: " ELSE "Error: "),
             "Reading not found for ID: ">> \o msg[m].req.args.id
      /\ msg[m].calls = 1

\* The window held a reading, though not the requested one.
C20_Witness ==
  \E m \in Msgs :
    /\ Invoked(m) /\ msg[m].req.name = "fetch" /\ msg[m].req.args.id = IdDay
    /\ msg[m].resp.kind = "ok" /\ msg[m].resp.samples = {TsNear}
    /\ msg[m].result.isError = Some(TRUE) /\ msg[m].calls = 1

\* C21: every tool invocation sends at most one request to the remote API,
\* whether that request succeeds or fails; none is sent again.
C21_AtMostOneRequest ==
  \A m \in Msgs :
    /\ msg[m].calls <= 1
    /\ msg[m].pc = "api" => msg[m].calls = 1
    /\ (msg[m].pc = "done" /\ msg[m].resp /= NoResponse) => msg[m].calls = 1
    /\ msg[m].call = NoCall => msg[m].calls = 0

\* The one request of an invocation failed and the invocation has returned.
C21_Witness ==
  \E m \in Msgs :
    /\ Invoked(m) /\ msg[m].pc = "done" /\ msg[m].resp.kind = "network"
    /\ msg[m].calls = 1

\* The arguments of m do not pass the validation of its capability.
InvalidArguments(m) ==
  /\ Invoked(m) /\ msg[m].req.name \in CaseLabels(variant)
  /\ \/ msg[m].req.name = "search" /\ msg[m].req.args.query = <<>>
     \/ msg[m].req.name = "fetch" /\ msg[m].req.args.id = <<>>
     \/ msg[m].req.name = "fetch" /\ msg[m].req.args.id /= <<>>
          /\ msg[m].req.args.id[1] /= "reading"

\* What the error block says about the arguments of m.
ArgumentProblem(m) ==
  IF msg[m].req.name = "search" THEN <<"Query parameter is required">>
  ELSE IF msg[m].req.args.id = <<>> THEN <<"ID parameter is required">>
  ELSE <<"Unknown type: ", msg[m].req.args.id[1]>>

\* C22: search without a query, and fetch without an id or with an id whose
\* part before the first ':' is not "reading", return an isError result and
\* make no call to the remote API; the result describes the argument's
\* problem when the invocation has a credential.
C22_ValidationBeforeCall ==
  \A m \in Msgs :
    InvalidArguments(m) =>
      /\ msg[m].pc = "done" /\ msg[m].calls = 0 /\ msg[m].call = NoCall
      /\ msg[m].result.isError = Some(TRUE)
      /\ OneTextBlock(m)
      /\ HasCredential(m) =>
           OnlyBlock(m).text =
             <<(IF variant = "oauth" THEN "\\u274c Error: " ELSE "Error: ")>>
               \o ArgumentProblem(m)

\* A fetch of "note:..." was refused without a call.
C22_Witness ==
  \E m \in Msgs :
    /\ InvalidArguments(m) /\ HasCredential(m) /\ msg[m].req.args.id = IdNote
    /\ OnlyBlock(m).text = <<"Error: ", "Unknown type: ", "note">>
    /\ msg[m].calls = 0

\* The invocation m succeeded: the remote API answered its call and, for
\* fetch, the answer holds a reading with the timestamp the handler looks for.
Succeeded(m) ==
  /\ Invoked(m) /\ msg[m].pc = "done" /\ msg[m].resp.kind = "ok"
  /\ msg[m].req.name = "fetch" =>
       FindReading(msg[m].resp.samples,
                   Destructure(SplitColon(msg[m].req.args.id), 2)) /= {}

Answered404(m) == msg[m].resp.kind = "status" /\ msg[m].resp.status = 404

\* The message of the error the client threw, as the catch of the server puts
\* it in the block (the OAuth server prefers the remote API's own error text).
RethrownText(m) ==
  IF variant = "oauth"
  THEN <<"\\u274c Error: ">> \o
         (IF msg[m].resp.error /= <<>> THEN msg[m].resp.error
          ELSE AxiosMessage(msg[m].resp))
  ELSE <<"Error: ">> \o AxiosMessage(msg[m].resp)

\* C24: getLatestGlucose and getGlucoseStats give null exactly when the remote
\* API answers 404, which the handler answers with a "no data found" text
\* block, and rethrow every other failure unchanged; getGlucoseReadings
\* propagates every failure, 404 included.
C24_NullExactlyOn404 ==
  \A m \in Msgs :
    (Invoked(m) /\ msg[m].pc = "done" /\ msg[m].resp /= NoResponse) =>
      IF msg[m].call.op \in {"latest", "stats"}
      THEN /\ Answered404(m) <=>
                OnlyBlock(m).text =
                  (IF msg[m].call.op = "latest"
                   THEN <<"No glucose readings found for this user.">>
                   ELSE <<"No glucose data found for the specified time range.">>)
           /\ (RemoteFailed(m) /\ ~Answered404(m)) =>
                (msg[m].result.isError = Some(TRUE) /\ OnlyBlock(m).text = RethrownText(m))
      ELSE RemoteFailed(m) =>
             (msg[m].result.isError = Some(TRUE) /\ OnlyBlock(m).text = RethrownText(m))

\* The statistics call was answered 404 and the result says "no data".
C24_Witness ==
  \E m \in Msgs :
    /\ Invoked(m) /\ msg[m].call.op = "stats" /\ Answered404(m)
    /\ OnlyBlock(m).text = <<"No glucose data found for the specified time range.">>
    /\ msg[m].result.isError = Absent

\* The connections whose stream was opened (each was given a session id).
Opened == {c \in Conns : conn[c].sessionId /= Absent}

\* C25: the registry maps distinct session ids to distinct stream handles: a
\* stream open gives its transport an id no other stream, open or closed, was
\* given, and registers the transport under that id and no other; no transport
\* is registered under two ids.
C25_DistinctIdsDistinctStreams ==
  /\ \A c, d \in Opened : conn[c].sessionId = conn[d].sessionId => c = d
  /\ \A s, t \in DOMAIN transports : transports[s] = transports[t] => s = t
  /\ \A s \in DOMAIN transports :
       transports[s] \in Opened /\ conn[transports[s]].sessionId = s
  /\ \A c \in Opened :
       (conn[c].sseOpen /\ ~conn[c].errored) =>
         (conn[c].sessionId \in DOMAIN transports /\ transports[conn[c].sessionId] = c)
  /\ Cardinality(DOMAIN transports) <= Cardinality(Opened)

\* Two streams are open and registered, each under its own id.
C25_Witness ==
  \E c, d \in Opened :
    /\ c /= d /\ conn[c].sseOpen /\ conn[d].sseOpen
    /\ conn[c].sessionId /= conn[d].sessionId
    /\ transports[conn[c].sessionId] = c /\ transports[conn[d].sessionId] = d

\* C26: teardown releases the stream handle and the credential in one step, so
\* no state a POST /message can run in has a session with its credential and
\* without its registry entry, and a session has its registry entry without a
\* credential only before its stream open has stored one (never after a
\* listener ran).  The single-tenant HTTP server keeps no credentials.
C26_TeardownAtomic ==
  \A c \in Opened :
    LET s == conn[c].sessionId
    IN /\ s \in DOMAIN sessionTokens => s \in DOMAIN transports
       /\ (variant = "oauth" /\ s \in DOMAIN transports /\ s \notin DOMAIN sessionTokens) =>
            conn[c].pc = "introspect"
       /\ conn[c].errored => (s \notin DOMAIN transports /\ s \notin DOMAIN sessionTokens)

\* A session was established and torn down; it is in neither map, and a
\* message addressed to it afterwards was answered 404.
C26_Witness ==
  \E c \in Opened, m \in Msgs :
    /\ variant = "oauth"
    /\ conn[c].pc = "established" /\ conn[c].closed
    /\ conn[c].sessionId \notin DOMAIN transports
    /\ conn[c].sessionId \notin DOMAIN sessionTokens
    /\ msg[m].sessionId = conn[c].sessionId
    /\ msg[m].pc = "done" /\ msg[m].status = 404 /\ ~msg[m].dispatched

\* n is the message that arrives next.
NextToArrive(n) ==
  /\ msg[n].pc = "idle" /\ (IF n = 1 THEN TRUE ELSE msg[n - 1].pc /= "idle")
  /\ Requested < MaxReq

\* The server can take the message n for the session s now and hand it to the
\* session's transport.
RoutedNow(n, s) ==
  \E req \in SessionRequests :
    IF variant = "oauth"
    THEN ENABLED (OAuthPostMessage(n, s, req) /\ msg'[n].status = 202)
    ELSE ENABLED (HttpPostMessage(n, s, req) /\ msg'[n].pc = "body")

\* The server can open the stream of the connection c now.
OpenedNow(c) ==
  IF variant = "oauth" THEN ENABLED OAuthGetSse(c, BearerOf(c))
  ELSE ENABLED HttpGetSse(c)

\* C27: while a dispatch m is suspended on its remote call, the server takes a
\* message for any other open session, reads its body, dispatches it and
\* resumes it when its own remote call returns, and opens and closes other
\* sessions' streams, none of which waits for m.
C27_SessionsIndependent ==
  \A m \in Msgs :
    msg[m].pc = "api" =>
      /\ \A n \in Msgs \ {m}, c \in Opened :
           (/\ NextToArrive(n) /\ conn[c].sseOpen
            /\ conn[c].sessionId \in DOMAIN transports
            /\ conn[c].sessionId /= msg[m].sessionId) => RoutedNow(n, conn[c].sessionId)
      /\ \A n \in Msgs \ {m} :
           /\ msg[n].pc = "body" => ENABLED HttpBodyRead(n)
           /\ msg[n].pc = "api" => ENABLED ApiReturn(n, FewKinds)
      /\ \A c \in Conns :
           /\ (/\ conn[c].pc = "idle" /\ (IF c = 1 THEN TRUE ELSE conn[c - 1].pc /= "idle")
               /\ Requested < MaxReq) => OpenedNow(c)
           /\ (conn[c].sseOpen /\ conn[c].sessionId /= msg[m].sessionId)
                => ENABLED StreamClose(c)

\* A message for one session is still waiting for the remote API while a
\* message that arrived later, for another session, has been answered.
C27_Witness ==
  \E m, n \in Msgs :
    /\ m < n /\ msg[m].pc = "api"
    /\ msg[n].pc = "done" /\ msg[n].status = 202 /\ msg[n].resp /= NoResponse
    /\ msg[n].result /= NoResult
    /\ msg[n].sessionId /= msg[m].sessionId

\* The result of m is the error block of the failure its remote call ended in.
UpstreamFailureBlock(m) ==
  /\ msg[m].result.isError = Some(TRUE)
  /\ OneTextBlock(m)
  /\ OnlyBlock(m).text = RethrownText(m)

\* C28: every dispatch that has issued its remote call eventually returns a
\* tool result (none stays suspended forever), and a dispatch whose call ran
\* into the timeout returns the error block of an upstream failure.
C28_EventuallyReturns ==
  /\ \A m \in Msgs :
       (msg[m].pc = "api") ~> (msg[m].pc = "done" /\ msg[m].result /= NoResult)
  /\ [](\A m \in Msgs :
          (msg[m].pc = "done" /\ msg[m].resp.kind = "timeout") => UpstreamFailureBlock(m))

\* A dispatch whose remote call timed out has returned its error block.
C28_Witness ==
  \E m \in Msgs :
    /\ Invoked(m) /\ msg[m].pc = "done" /\ msg[m].resp = TimeoutError
    /\ msg[m].calls = 1 /\ UpstreamFailureBlock(m)
    /\ AxiosMessage(msg[m].resp) = <<"timeout of 30000ms exceeded">>

\* C29: a session's credential entry is written once: while the entry stays
\* in the map no step changes its value, and any two dispatches of one session
\* that recovered a token recovered the same one.
C29_CredentialWrittenOnce ==
  /\ [][\A s \in DOMAIN sessionTokens \cap DOMAIN sessionTokens' :
           sessionTokens'[s] = sessionTokens[s]]_vars
  /\ [](\A m, n \in Msgs :
          (/\ Invoked(m) /\ Invoked(n) /\ msg[m].sessionId = msg[n].sessionId
           /\ Truthy(msg[m].accessToken) /\ Truthy(msg[n].accessToken))
          => msg[m].accessToken = msg[n].accessToken)

\* Two dispatches of one session are suspended on their remote calls at the
\* same time, both with the token stored for the session.
C29_Witness ==
  \E m, n \in Msgs :
    /\ m /= n /\ msg[m].pc = "api" /\ msg[n].pc = "api"
    /\ msg[m].sessionId = msg[n].sessionId
    /\ msg[m].sessionId \in DOMAIN sessionTokens
    /\ Truthy(msg[m].accessToken)
    /\ msg[m].accessToken = sessionTokens[msg[m].sessionId]
    /\ msg[n].accessToken = sessionTokens[msg[n].sessionId]

\* C30: in the OAuth server every remote call is made for the user
\* 'oauth-user', whatever the session, the credential and the arguments
\* (a userId argument included), and carries the dispatch's own token as
\* bearer credential: apart from that token the call is a function of the
\* capability and its arguments alone.
C30_ConstantUserId ==
  \A m \in Msgs :
    (variant = "oauth" /\ msg[m].call /= NoCall) =>
      /\ msg[m].call.userId = <<"oauth-user">>
      /\ msg[m].call.auth =
           [header |-> "Authorization", scheme |-> "Bearer", cred |-> msg[m].accessToken]
      /\ Truthy(msg[m].accessToken)
      /\ \A token \in {BearerOf(c) : c \in Conns} :
           \E o \in CallToolBegin("oauth", msg[m].req.name, msg[m].req.args, token,
                                  DEFAULT_USER_ID) :
             /\ o.kind /= "result"
             /\ o.call.auth.cred = token
             /\ [o.call EXCEPT !.auth = msg[m].call.auth] = msg[m].call

\* The OAuth server called the remote API for 'oauth-user' although the
\* invocation named another user.
C30_Witness ==
  \E m \in Msgs :
    /\ variant = "oauth" /\ msg[m].call /= NoCall
    /\ msg[m].req.args.userId = Alice
    /\ msg[m].call.userId = <<"oauth-user">>
    /\ msg[m].call.auth.cred = msg[m].accessToken

\* C31: the response to a POST /message with an unknown session id names no
\* session other than the one the caller sent.
C31_NotFoundDisclosesNothing ==
  \A m \in Msgs :
    (msg[m].pc = "done" /\ msg[m].status = 404 /\ ~msg[m].dispatched) =>
      /\ msg[m].body.availableSessions \subseteq {msg[m].sessionId}
      /\ msg[m].body.sessionId \in {Absent, msg[m].sessionId}

\* C32: in the OAuth server every registered session id has its credential
\* stored, and every message routed to a registered session finds a token.
C32_RegisteredHasCredential ==
  variant = "oauth" =>
    /\ \A s \in DOMAIN transports : s \in DOMAIN sessionTokens
    /\ \A m \in Msgs : Invoked(m) => Truthy(msg[m].accessToken)

\* C33: after a stream open that failed while connecting, neither the session
\* registry nor the credential store holds an entry for its session.
C33_FailedOpenLeavesNoTrace ==
  \A c \in Conns :
    conn[c].pc = "failed" =>
      /\ conn[c].sessionId \notin DOMAIN transports
      /\ conn[c].sessionId \notin DOMAIN sessionTokens

\* C34: fetch, given the id search emits for a reading the remote API holds
\* and returns, gives that same reading.
C34_SearchFetchRoundTrip ==
  \A m \in Msgs, d \in remote :
    (/\ Invoked(m) /\ msg[m].pc = "done" /\ HasCredential(m)
     /\ msg[m].req.name = "fetch" /\ "fetch" \in CaseLabels(variant)
     /\ msg[m].req.args.id = SearchId(d)
     /\ msg[m].resp.kind \in {"none", "ok"}) =>
      /\ msg[m].result.isError = Absent
      /\ OneTextBlock(m)
      /\ OnlyBlock(m).payload.kind = "reading"
      /\ OnlyBlock(m).payload.dates = {d}
      /\ OnlyBlock(m).payload.ids = {SearchId(d)}

\* The invocation m was answered "Unknown tool: <name>".
AnsweredUnknownTool(m) ==
  /\ msg[m].pc = "done"
  /\ msg[m].result.isError = Some(TRUE)
  /\ OneTextBlock(m)
  /\ OnlyBlock(m).text =
       <<(IF variant = "oauth" THEN CatchPrefixOAuth ELSE CatchPrefixHttp),
         "Unknown tool: ", msg[m].req.name>>

\* C35: in each server the names list-capabilities announces are the names
\* invoke accepts: the listing is the set of the handler's branches, an
\* invocation (with a credential) of a listed name is never answered "Unknown
\* tool", and an invocation of any other name always is.
C35_ListedIffAccepted ==
  \A m \in Msgs :
    /\ (msg[m].dispatched /\ msg[m].req.method = "tools/list") =>
         Range(msg[m].result.tools) = CaseLabels(variant)
    /\ (Invoked(m) /\ HasCredential(m)) =>
         (msg[m].req.name \in Range(ListResult(variant).tools) <=> ~AnsweredUnknownTool(m))

\* The single-tenant HTTP server took an invocation of the listed name
\* 'fetch' into its branch, up to the remote call.
C35_Witness ==
  \E m \in Msgs :
    /\ variant = "http" /\ Invoked(m) /\ HasCredential(m)
    /\ msg[m].req.name = "fetch" /\ "fetch" \in Range(ListResult(variant).tools)
    /\ msg[m].pc = "api" /\ msg[m].call.op = "readings"

\* C36: every POST /message gets exactly one HTTP response: none while its
\* body is being read, one from then on (400, 404, the transport's 202, or
\* 500), and never a second one.
C36_ExactlyOneResponse ==
  \A m \in Msgs :
    variant /= "stdio" =>
      /\ msg[m].responses <= 1
      /\ msg[m].pc \in {"idle", "body"} => (msg[m].responses = 0 /\ msg[m].status = 0)
      /\ msg[m].pc \in {"api", "done"} =>
           /\ msg[m].responses = 1
           /\ msg[m].status \in {400, 404, 202, 500}
           /\ msg[m].status = 202 <=> msg[m].dispatched
           /\ msg[m].status = 400 <=> ~Truthy(msg[m].sessionId)

\* The transport answered 500 for a session whose stream is gone, and the
\* router's catch added nothing.
C36_Witness ==
  \E m \in Msgs :
    /\ msg[m].pc = "done" /\ msg[m].status = 500 /\ msg[m].responses = 1
    /\ ~msg[m].dispatched /\ msg[m].sessionId \in DOMAIN transports
====
